---- MODULE Spec2Model ----
(***************************************************************************)
(* Model of the news-search crawler of src/app.py: the record extractor    *)
(* (parse_page and _extract_title_from_card) and the pagination driver     *)
(* (crawl), together with the entry points run_cli and streamlit_main.     *)
(*                                                                         *)
(* Texts and href attributes are sequences of one-character strings, so    *)
(* that whitespace normalisation (_clean_text, str.strip) is computed and  *)
(* not assumed.  A container ("box") is the part of the DOM the selectors  *)
(* of the title and link chains look at: its headline spans and its        *)
(* anchors, both in document order.  The Date and Source columns are       *)
(* filled after the title and link stages have accepted a container and    *)
(* never decide whether a row is produced; they are left out.              *)
(***************************************************************************)
EXTENDS Integers, Sequences, FiniteSets, TLC

\* ------------------------------------------------------------------ bounds
MaxPages == 3      \* largest max_pages a caller passes
MaxBoxes == 2      \* most containers on a generated listing page

\* ------------------------------------------------------- program constants
PageSize == 10     \* start += 10
MinTitleLen == 10  \* len(txt) > 10
HTTP_OK == 200     \* resp.status_code != 200
DEFAULT_START_DATE == 1          \* "2024.01.01", as a day number
DEFAULT_END_DATE == 2            \* "2024.12.31", as a (later) day number
DEFAULT_MAX_PAGES == MaxPages    \* the safety limit, scaled to the model

\* ------------------------------------------------------------------- texts
\* a text is a sequence of tokens: whitespace characters, letters, or (in
\* hrefs) whole URLs
WS == {" ", "\n", "\r"}

\* "여의시스템", five characters, spelled in ASCII
KEYWORD == <<"Y", "E", "O", "U", "I">>

RECURSIVE Words(_, _)
\* str.split(): the maximal runs of non-whitespace characters of s, in order;
\* cur is the run being read.
Words(s, cur) ==
  IF s = <<>> THEN (IF cur = <<>> THEN <<>> ELSE <<cur>>)
  ELSE IF Head(s) \in WS
       THEN (IF cur = <<>> THEN <<>> ELSE <<cur>>) \o Words(Tail(s), <<>>)
       ELSE Words(Tail(s), Append(cur, Head(s)))

RECURSIVE Join(_)
\* " ".join(ws)
Join(ws) ==
  IF ws = <<>> THEN <<>>
  ELSE IF Len(ws) = 1 THEN ws[1]
  ELSE ws[1] \o <<" ">> \o Join(Tail(ws))

\* _clean_text(s): newlines become spaces, runs of whitespace collapse, ends trimmed
_clean_text(s) == Join(Words(s, <<>>))

RECURSIVE LStrip(_)
LStrip(s) == IF s # <<>> /\ Head(s) \in WS THEN LStrip(Tail(s)) ELSE s

RECURSIVE RStrip(_)
RStrip(s) ==
  IF s # <<>> /\ s[Len(s)] \in WS THEN RStrip(SubSeq(s, 1, Len(s) - 1)) ELSE s

\* str.strip()
Strip(s) == RStrip(LStrip(s))

\* `kw in txt` for strings
Contains(txt, kw) ==
  \E i \in 1..(Len(txt) - Len(kw) + 1) : SubSeq(txt, i, i + Len(kw) - 1) = kw

\* ------------------------------------------------------------ containers
\* The least of the indices I, 0 if there is none (select_one / find return
\* the first match in document order, or None).
FirstIdx(I) == IF I = {} THEN 0 ELSE CHOOSE i \in I : \A j \in I : i <= j

\* a class attribute that re.compile("news_tit") matches
ClassMatchesNewsTit(cls) == cls \in {"news_tit", "news_tit_sub"}

\* box.select_one(f"a:has(> {HEADLINE_SEL})"): the first anchor with a
\* headline span as a direct child
HeadlineAnchor(box) ==
  FirstIdx({i \in DOMAIN box.anchors :
              \E k \in DOMAIN box.spans : box.spans[k].parent = i})

\* box.select_one("a.news_tit") or box.find("a", attrs={"class": re.compile("news_tit")})
NewsTitAnchor(box) ==
  LET exact == FirstIdx({i \in DOMAIN box.anchors : box.anchors[i].cls = "news_tit"})
  IN IF exact # 0 THEN exact
     ELSE FirstIdx({i \in DOMAIN box.anchors : ClassMatchesNewsTit(box.anchors[i].cls)})

\* step 4 of the title chain: the first anchor whose cleaned text holds the
\* keyword and is longer than MinTitleLen
KeywordAnchor(box) ==
  FirstIdx({i \in DOMAIN box.anchors :
              /\ Contains(_clean_text(box.anchors[i].text), KEYWORD)
              /\ Len(_clean_text(box.anchors[i].text)) > MinTitleLen})

\* _extract_title_from_card(box).  A Tag is truthy whatever its contents, so
\* `if span:` and `if a:` test presence only.
_extract_title_from_card(box) ==
  IF box.spans # <<>> THEN _clean_text(box.spans[1].text)
  ELSE IF HeadlineAnchor(box) # 0
          /\ \E k \in DOMAIN box.spans : box.spans[k].parent = HeadlineAnchor(box)
       THEN LET k == FirstIdx({j \in DOMAIN box.spans :
                                  box.spans[j].parent = HeadlineAnchor(box)})
            IN _clean_text(box.spans[k].text)
  ELSE IF NewsTitAnchor(box) # 0
       THEN _clean_text(box.anchors[NewsTitAnchor(box)].text)
  ELSE IF KeywordAnchor(box) # 0
       THEN _clean_text(box.anchors[KeywordAnchor(box)].text)
  ELSE <<>>

\* the anchor parse_page takes the link from: headline anchor, else news_tit
\* anchor, else the first anchor; 0 if the box has no anchor
LinkAnchor(box) ==
  IF HeadlineAnchor(box) # 0 THEN HeadlineAnchor(box)
  ELSE IF NewsTitAnchor(box) # 0 THEN NewsTitAnchor(box)
  ELSE IF box.anchors # <<>> THEN 1
  ELSE 0

\* a.get("href", "").strip(); href is <<>> when the attribute is missing
LinkOf(a) == IF a.href = <<>> THEN <<>> ELSE Strip(a.href[1])

\* parse_page without `if not title: continue`
RowOf_KeepUntitled(box) ==
  IF LinkAnchor(box) = 0 THEN <<>>
  ELSE LET link == LinkOf(box.anchors[LinkAnchor(box)])
       IN IF link = <<>> THEN <<>>
          ELSE << [Title |-> _extract_title_from_card(box), Link |-> link] >>

\* the row parse_page appends for one box, as a sequence of zero or one rows
RowOf(box) ==
  LET title == _extract_title_from_card(box)
  IN IF title = <<>> THEN <<>>
     ELSE IF LinkAnchor(box) = 0 THEN <<>>
     ELSE LET link == LinkOf(box.anchors[LinkAnchor(box)])
          IN IF link = <<>> THEN <<>>
             ELSE << [Title |-> title, Link |-> link] >>

RECURSIVE RowsOf(_)
RowsOf(boxes) ==
  IF boxes = <<>> THEN <<>> ELSE RowOf(Head(boxes)) \o RowsOf(Tail(boxes))

\* the containers of a page: the primary selector's, the secondary selectors'
\* when the primary finds none
SelectBoxes(html) == IF html.primary # <<>> THEN html.primary ELSE html.secondary

parse_page(html) == RowsOf(SelectBoxes(html))

\* ------------------------------------------------------- inputs: the pages
T_BLANK == <<" ", "\n">>
T_SHORT == <<"a", " ", "\r", "b">>
T_HEAD == <<"\n", "h", " ">>
T_LONG == <<" ">> \o KEYWORD \o <<" ", " ", "n", "e", "w", "s", "!">>

UrlTok == <<"u1", "u2", "u3", "u4", "u5", "u6", "u7", "u8", "u9", "u10">>
Url(n) == <<UrlTok[n]>>
Anchor(cls, text, href) == [cls |-> cls, text |-> text, href |-> href]
Span(text, parent) == [text |-> text, parent |-> parent]
Box(spans, anchors) == [spans |-> spans, anchors |-> anchors]

\* a legacy card: a.news_tit with the n-th link, padded with whitespace
BoxNewsTit(n) ==
  Box(<<>>, <<Anchor("news_tit", T_SHORT, << <<" ">> \o Url(n) \o <<"\n">> >>)>>)
\* a card whose headline span is the child of its link
BoxHeadline ==
  Box(<<Span(T_HEAD, 2)>>,
      <<Anchor("plain", T_SHORT, <<Url(1)>>), Anchor("plain", T_HEAD, <<Url(2)>>)>>)
\* a headline span with blank text next to a titled a.news_tit
BoxBlankHeadline ==
  Box(<<Span(T_BLANK, 0)>>, <<Anchor("news_tit", T_SHORT, <<Url(1)>>)>>)
\* no title-bearing element: a plain link with a short text
BoxNoTitle == Box(<<>>, <<Anchor("plain", T_SHORT, <<Url(2)>>)>>)
\* a titled link without href, and one whose href is blank
BoxNoHref == Box(<<>>, <<Anchor("news_tit_sub", T_SHORT, <<>>)>>)
BoxBlankHref == Box(<<>>, <<Anchor("news_tit", T_HEAD, <<T_BLANK>>)>>)
\* only the keyword fallback finds a title; the link is the first anchor's
BoxKeywordLink ==
  Box(<<>>, <<Anchor("plain", KEYWORD, <<Url(1)>>), Anchor("plain", T_LONG, <<Url(2)>>)>>)
\* a headline span and no anchor at all
BoxNoAnchor == Box(<<Span(T_SHORT, 0)>>, <<>>)

\* the containers that pages are assembled from, and every kind of container
CoreBoxes == {BoxNewsTit(1), BoxNewsTit(2), BoxHeadline, BoxNoTitle}
Boxes ==
  CoreBoxes \cup {BoxBlankHeadline, BoxNoHref, BoxBlankHref, BoxKeywordLink, BoxNoAnchor}

\* the sequences over S of length at most n
RECURSIVE SeqsUpTo(_, _)
SeqsUpTo(S, n) ==
  IF n = 0 THEN {<<>>}
  ELSE LET shorter == SeqsUpTo(S, n - 1)
       IN shorter \cup {Append(q, x) : q \in {r \in shorter : Len(r) = n - 1}, x \in S}

Page(primary, secondary) == [primary |-> primary, secondary |-> secondary]

\* a full page: PageSize legacy cards with the links 1..PageSize
FullPage == Page([i \in 1..PageSize |-> BoxNewsTit(i)], <<>>)

\* the listing pages the server may answer with
Pages ==
  {Page(p, <<>>) : p \in SeqsUpTo(CoreBoxes, MaxBoxes)}
  \cup {Page(<<b>>, <<>>) : b \in Boxes}
  \cup {Page(<<>>, <<b>>) : b \in Boxes}
  \cup {Page(<<BoxNewsTit(1)>>, <<BoxNewsTit(2)>>), FullPage}

NoPage == Page(<<>>, <<>>)

\* ------------------------------------------------------------------- state
VARIABLES
  pc,           \* where control is: Idle, LoopTop, Requesting, Extracting,
                \* Deciding, Sleeping, CheckNew, Done, Returned, Raised
  entry,        \* the entry point taken: crawl, run_cli or streamlit_main
  start_date, end_date, max_pages,   \* crawl's arguments
  start,        \* the pagination offset
  page_count,
  seen_links,
  titles, links,   \* the accumulated columns
  resp,         \* the last response: <<>> or <<[status, text]>>
  rows, ri,     \* the rows of the page and the position of `for r in rows`
  new_cnt,
  logs,         \* the messages passed to log, in order
  requests,     \* the URLs handed to session.get, in order
  sleeps,       \* the number of time.sleep calls
  debug_file,   \* debug_naver.html: <<>> or <<its content>>
  ui_error,     \* st.error was shown
  result        \* <<>> until crawl returns, then <<titles, links>>

vars ==
  <<pc, entry, start_date, end_date, max_pages, start, page_count, seen_links,
    titles, links, resp, rows, ri, new_cnt, logs, requests, sleeps, debug_file,
    ui_error, result>>

\* the dates a caller passes, as day numbers
Days == {DEFAULT_START_DATE, DEFAULT_END_DATE}

\* the exceptions session.get raises, all subclasses of requests.RequestException
TransportExceptions == {"ConnectionError", "Timeout"}
\* an except clause that names the timeout only
IsRequestException_TimeoutOnly(e) == e = "Timeout"

\* `except requests.RequestException`
IsRequestException(e) == e \in {"ConnectionError", "Timeout", "RequestException"}

\* the status codes of the answers
Statuses == {HTTP_OK, 404, 503}

Init ==
  /\ pc = "Idle"
  /\ entry = "none"
  /\ start_date = 0 /\ end_date = 0 /\ max_pages = 0
  /\ start = 0 /\ page_count = 0
  /\ seen_links = {}
  /\ titles = <<>> /\ links = <<>>
  /\ resp = <<>>
  /\ rows = <<>> /\ ri = 0 /\ new_cnt = 0
  /\ logs = <<>> /\ requests = <<>> /\ sleeps = 0
  /\ debug_file = <<>>
  /\ ui_error = FALSE
  /\ result = <<>>

\* crawl's prologue: empty columns, start = 1, page_count = 0
EnterCrawl(sd, ed, mp) ==
  /\ start_date' = sd /\ end_date' = ed /\ max_pages' = mp
  /\ titles' = <<>> /\ links' = <<>> /\ seen_links' = {}
  /\ start' = 1
  /\ page_count' = 0
  /\ pc' = "LoopTop"

\* crawl(...) called by a library user, with any arguments
CallCrawl ==
  /\ pc = "Idle"
  /\ entry' = "crawl"
  /\ \E sd \in Days, ed \in Days, mp \in 0..MaxPages : EnterCrawl(sd, ed, mp)
  /\ UNCHANGED <<resp, rows, ri, new_cnt, logs, requests, sleeps, debug_file,
                 ui_error, result>>

\* run_cli(): crawl with the defaults
run_cli ==
  /\ pc = "Idle"
  /\ entry' = "run_cli"
  /\ EnterCrawl(DEFAULT_START_DATE, DEFAULT_END_DATE, DEFAULT_MAX_PAGES)
  /\ UNCHANGED <<resp, rows, ri, new_cnt, logs, requests, sleeps, debug_file,
                 ui_error, result>>

\* streamlit_main(): the form's values; nothing happens until it is submitted,
\* and a start date after the end date is answered with st.error
streamlit_main ==
  /\ pc = "Idle"
  /\ entry' = "streamlit_main"
  /\ \E submitted \in BOOLEAN, sd \in Days, ed \in Days, mp \in 1..MaxPages :
       IF ~submitted
       THEN /\ pc' = "Returned"
            /\ UNCHANGED <<start_date, end_date, max_pages, start, page_count,
                           seen_links, titles, links, ui_error>>
       ELSE IF sd > ed
       THEN /\ pc' = "Returned"
            /\ ui_error' = TRUE
            /\ start_date' = sd /\ end_date' = ed
            /\ UNCHANGED <<max_pages, start, page_count, seen_links, titles, links>>
       ELSE /\ EnterCrawl(sd, ed, mp)
            /\ UNCHANGED ui_error
  /\ UNCHANGED <<resp, rows, ri, new_cnt, logs, requests, sleeps, debug_file, result>>

\* a message passed to log: its kind, the offset it names, and the counts of
\* the page message ("수집 n건 / 신규 k건")
Msg(kind) == [msg |-> kind, start |-> start, rows |-> 0, new |-> 0]
PageMsg == [msg |-> "page", start |-> start, rows |-> Len(rows), new |-> new_cnt]

\* `return titles, dates, sources, links`
Return == /\ pc' = "Done"
          /\ result' = <<titles, links>>

\* the limit tested one page late
ExceedsMaxPages_Late(count, limit) == count > limit + 1

\* page_count > max_pages
ExceedsMaxPages(count, limit) == count > limit

\* the head of `while True`: count the page, stop past the limit
LoopTop ==
  /\ pc = "LoopTop"
  /\ page_count' = page_count + 1
  /\ IF ExceedsMaxPages(page_count', max_pages)
     THEN /\ logs' = Append(logs, Msg("max_pages"))
          /\ Return
     ELSE /\ pc' = "Requesting"
          /\ UNCHANGED <<logs, result>>
  /\ UNCHANGED <<entry, start_date, end_date, max_pages, start, seen_links, titles,
                 links, resp, rows, ri, new_cnt, requests, sleeps, debug_file, ui_error>>

\* build_url(...): the parts of the URL that vary within the model
build_url(sd, ed, offset) == [ds |-> sd, de |-> ed, start |-> offset]

\* session.get(url): an exception, an answer with a bad status, or a page
Request ==
  /\ pc = "Requesting"
  /\ requests' = Append(requests, build_url(start_date, end_date, start))
  /\ \/ \E e \in TransportExceptions :
          /\ IF IsRequestException(e)
             THEN /\ logs' = logs \o <<Msg("request"), Msg("exception")>>
                  /\ Return
             ELSE /\ logs' = Append(logs, Msg("request"))
                  /\ pc' = "Raised"
                  /\ UNCHANGED result
          /\ UNCHANGED resp
     \/ \E st \in Statuses \ {HTTP_OK} :
          /\ resp' = <<[status |-> st, text |-> NoPage]>>
          /\ logs' = logs \o <<Msg("request"), Msg("status")>>
          /\ Return
     \/ \E page \in Pages :
          /\ resp' = <<[status |-> HTTP_OK, text |-> page]>>
          /\ logs' = Append(logs, Msg("request"))
          /\ pc' = "Extracting"
          /\ UNCHANGED result
  /\ UNCHANGED <<entry, start_date, end_date, max_pages, start, page_count, seen_links,
                 titles, links, rows, ri, new_cnt, sleeps, debug_file, ui_error>>

\* the empty page tested as `rows is None`
NoRows_IsNone(rs) == FALSE

\* `not rows`
NoRows(rs) == rs = <<>>

\* rows = parse_page(resp.text); no rows: dump the body and stop
Extract ==
  /\ pc = "Extracting"
  /\ rows' = parse_page(resp[1].text)
  /\ IF NoRows(rows')
     THEN /\ debug_file' = <<resp[1].text>>
          /\ logs' = Append(logs, Msg("no_rows"))
          /\ Return
          /\ UNCHANGED <<ri, new_cnt>>
     ELSE /\ new_cnt' = 0
          /\ ri' = 1
          /\ pc' = "Deciding"
          /\ UNCHANGED <<debug_file, logs, result>>
  /\ UNCHANGED <<entry, start_date, end_date, max_pages, start, page_count, seen_links,
                 titles, links, resp, requests, sleeps, ui_error>>

\* the seen-set test dropped from the admission test
IsNew_IgnoreSeen(link, seen) == link # <<>>

\* `not link or link in seen_links` is false: the row is new
IsNew(link, seen) == ~(link = <<>> \/ link \in seen)

\* one pass of `for r in rows`
Admit ==
  /\ pc = "Deciding"
  /\ ri <= Len(rows)
  /\ LET r == rows[ri]
     IN IF IsNew(r.Link, seen_links)
        THEN /\ seen_links' = seen_links \cup {r.Link}
             /\ titles' = Append(titles, r.Title)
             /\ links' = Append(links, r.Link)
             /\ new_cnt' = new_cnt + 1
        ELSE UNCHANGED <<seen_links, titles, links, new_cnt>>
  /\ ri' = ri + 1
  /\ UNCHANGED <<pc, entry, start_date, end_date, max_pages, start, page_count, resp,
                 rows, logs, requests, sleeps, debug_file, ui_error, result>>

\* the offset advanced by a page number instead of a page of results
NextOffset_ByOne(offset) == offset + 1

\* start += 10
NextOffset(offset) == offset + PageSize

\* after the loop: log the page, start += 10
Advance ==
  /\ pc = "Deciding"
  /\ ri > Len(rows)
  /\ logs' = Append(logs, PageMsg)
  /\ start' = NextOffset(start)
  /\ pc' = "Sleeping"
  /\ UNCHANGED <<entry, start_date, end_date, max_pages, page_count, seen_links, titles,
                 links, resp, rows, ri, new_cnt, requests, sleeps, debug_file, ui_error,
                 result>>

\* time.sleep(random.uniform(sleep_min, sleep_max))
Sleep ==
  /\ pc = "Sleeping"
  /\ sleeps' = sleeps + 1
  /\ pc' = "CheckNew"
  /\ UNCHANGED <<entry, start_date, end_date, max_pages, start, page_count, seen_links,
                 titles, links, resp, rows, ri, new_cnt, logs, requests, debug_file,
                 ui_error, result>>

\* the early stop tested with the wrong comparison
NoNewRecords_Negative(n) == n < 0

\* new_cnt == 0
NoNewRecords(n) == n = 0

\* `if new_cnt == 0: break`, else around the loop
CheckNew ==
  /\ pc = "CheckNew"
  /\ IF NoNewRecords(new_cnt)
     THEN /\ logs' = Append(logs, Msg("no_new"))
          /\ Return
     ELSE /\ pc' = "LoopTop"
          /\ UNCHANGED <<logs, result>>
  /\ UNCHANGED <<entry, start_date, end_date, max_pages, start, page_count, seen_links,
                 titles, links, resp, rows, ri, new_cnt, requests, sleeps, debug_file,
                 ui_error>>

Next ==
  \/ CallCrawl
  \/ run_cli
  \/ streamlit_main
  \/ LoopTop
  \/ Request
  \/ Extract
  \/ Admit
  \/ Advance
  \/ Sleep
  \/ CheckNew

Spec == Init /\ [][Next]_vars

TypeOK ==
  /\ pc \in {"Idle", "LoopTop", "Requesting", "Extracting", "Deciding", "Sleeping",
             "CheckNew", "Done", "Returned", "Raised"}
  /\ Len(titles) = Len(links)
  /\ page_count \in 0..(MaxPages + 1)

\* ------------------------------------------------------------- properties
Last(q) == q[Len(q)]
PageLogs == SelectSeq(logs, LAMBDA m : m.msg = "page")
RequestLogs == SelectSeq(logs, LAMBDA m : m.msg = "request")

RECURSIVE SumNew(_)
\* the records the logged pages admitted
SumNew(pl) == IF pl = <<>> THEN 0 ELSE Head(pl).new + SumNew(Tail(pl))

\* the crawl has stopped with this as its last message
StoppedFor(kind) == pc = "Done" /\ logs # <<>> /\ Last(logs).msg = kind

\* the containers of the last answer
FetchedBoxes ==
  IF resp # <<>> /\ resp[1].status = HTTP_OK THEN SelectBoxes(resp[1].text) ELSE <<>>

\* C1: the accumulator holds each link at most once, and holds exactly the
\* links of seen_links; the returned columns are the accumulated ones.
Thm_C1_LinksUnique ==
  /\ \A i, j \in DOMAIN links : links[i] = links[j] => i = j
  /\ seen_links = {links[i] : i \in DOMAIN links}
  /\ Len(titles) = Len(links)
  /\ pc = "Done" => result = <<titles, links>>

\* a second page has been gone through and a row of it was a repeat
Wit_C1_RepeatSkipped ==
  /\ pc = "Deciding" /\ ri > Len(rows)
  /\ page_count = 2
  /\ new_cnt < Len(rows)
  /\ \E k \in DOMAIN rows : \E i \in DOMAIN links : links[i] = rows[k].Link

\* C2: a page with rows and no new record is the last page: no request
\* follows it, control is on its way to Done, and the crawl ends with the
\* no-new-records message.  A full page of ten at offset 1 followed by the same
\* ten at offset 11 makes two requests and ten records.
TwoFullPages ==
  /\ Len(PageLogs) >= 2
  /\ PageLogs[1] = [msg |-> "page", start |-> 1, rows |-> 10, new |-> 10]
  /\ PageLogs[2] = [msg |-> "page", start |-> 11, rows |-> 10, new |-> 0]

Thm_C2_NoNewStops ==
  /\ \A k \in DOMAIN PageLogs :
       (PageLogs[k].rows >= 1 /\ PageLogs[k].new = 0) =>
          /\ k = Len(PageLogs)
          /\ Len(requests) = k
          /\ Last(RequestLogs).start = PageLogs[k].start
          /\ pc \in {"Sleeping", "CheckNew", "Done"}
          /\ pc = "Done" => Last(logs).msg = "no_new"
  /\ (pc \in {"Deciding", "Sleeping", "CheckNew"} /\ ri > Len(rows) /\ new_cnt = 0)
        => Len(requests) = page_count
  /\ TwoFullPages =>
          /\ Len(requests) = 2
          /\ Len(links) = 10
          /\ pc = "Done" => (Last(logs).msg = "no_new" /\ Len(result[2]) = 10)

Wit_C2_TwoFullPagesDone == TwoFullPages /\ StoppedFor("no_new")

\* C3: the k-th request carries offset 1 + 10*(k-1), whatever the pages
\* yielded; no offset is requested twice.
Thm_C3_Offsets ==
  /\ \A k \in DOMAIN requests : requests[k].start = 1 + PageSize * (k - 1)
  /\ \A j, k \in DOMAIN requests : requests[j].start = requests[k].start => j = k
  /\ pc = "Requesting" => start = 1 + PageSize * Len(requests)

\* three requests, after a page with skipped rows and a page with repeats
Wit_C3_ThreeRequests ==
  /\ Len(requests) = 3
  /\ Len(PageLogs) >= 2
  /\ PageLogs[1].rows = 1
  /\ PageLogs[2].new < PageLogs[2].rows

\* C4: never more requests than max_pages; the max-pages stop comes at the
\* head of the loop, with every row of the previous page gone through and no
\* request pending.
Thm_C4_MaxPages ==
  /\ Len(requests) <= max_pages
  /\ \A i \in DOMAIN logs : logs[i].msg = "max_pages" =>
        /\ i = Len(logs)
        /\ pc = "Done"
        /\ page_count = max_pages + 1
        /\ Len(requests) = max_pages
        /\ Len(RequestLogs) = max_pages
        /\ (rows = <<>> \/ ri = Len(rows) + 1)
        /\ Len(links) = SumNew(PageLogs)
  /\ pc \in {"Requesting", "Extracting", "Deciding", "Sleeping", "CheckNew"}
        => page_count <= max_pages

Wit_C4_StoppedAtLimit ==
  /\ StoppedFor("max_pages")
  /\ max_pages = 2
  /\ Len(requests) = 2
  /\ Len(rows) = 2

\* C5: a failed request (bad status or transport exception) ends the crawl
\* at once: the failure is logged, nothing is raised, the columns are left as
\* they were and returned, and nothing happens after Done, so the page is not
\* retried.
Thm_C5_FailSoft ==
  [][ /\ pc # "Done"
      /\ pc' # "Raised"
      /\ (pc = "Requesting" /\ pc' # "Extracting") =>
            /\ pc' = "Done"
            /\ Last(logs').msg \in {"status", "exception"}
            /\ Len(requests') = Len(requests) + 1
            /\ titles' = titles /\ links' = links
            /\ result' = <<titles, links>>
            /\ Len(links) = SumNew(PageLogs) ]_vars

Wit_C5_FailedAfterPages ==
  /\ StoppedFor("exception")
  /\ Len(requests) = 2
  /\ Len(links) = 2

\* C6: a page with no container at all ends the crawl: the body is written
\* to the diagnostic file, the offset is the one just requested, the columns
\* are what the earlier pages gave, and no request follows.  When it is the
\* first page the columns are empty and one request was made.
Thm_C6_ZeroContainers ==
  /\ (resp # <<>> /\ resp[1].status = HTTP_OK /\ FetchedBoxes = <<>> /\ pc # "Extracting")
        => /\ StoppedFor("no_rows")
           /\ debug_file = <<resp[1].text>>
           /\ start = Last(requests).start
           /\ Len(requests) = Len(RequestLogs)
           /\ Len(requests) = Len(PageLogs) + 1
           /\ Len(links) = SumNew(PageLogs)
           /\ result = <<titles, links>>
           /\ Len(requests) = 1 => links = <<>>
  /\ \A i \in DOMAIN logs : logs[i].msg = "no_rows" => (i = Len(logs) /\ pc = "Done")

Wit_C6_FirstPageEmpty ==
  /\ StoppedFor("no_rows")
  /\ FetchedBoxes = <<>>
  /\ Len(requests) = 1
  /\ links = <<>>
  /\ debug_file = <<NoPage>>

\* C7: no request is ever sent for a start date after the end date.
Cx_C7_InvalidRangeNoRequest == start_date > end_date => requests = <<>>

\* C8: every accumulated record has a non-empty title and a non-empty link;
\* a container without a title, without an anchor or with an empty href gives
\* no row.
UsableBoxes(boxes) ==
  {k \in DOMAIN boxes :
     /\ _extract_title_from_card(boxes[k]) # <<>>
     /\ LinkAnchor(boxes[k]) # 0
     /\ LinkOf(boxes[k].anchors[LinkAnchor(boxes[k])]) # <<>>}

Thm_C8_TitleAndLink ==
  /\ \A i \in DOMAIN titles : titles[i] # <<>> /\ links[i] # <<>>
  /\ Len(titles) = Len(links)
  /\ \A k \in DOMAIN rows : rows[k].Title # <<>> /\ rows[k].Link # <<>>
  /\ pc \in {"Deciding", "Sleeping", "CheckNew"} =>
        Len(rows) = Cardinality(UsableBoxes(FetchedBoxes))
  /\ (pc = "Deciding" /\ ri > Len(rows)) =>
        new_cnt <= Cardinality(UsableBoxes(FetchedBoxes))

\* a page with a title-less container and a usable one has been gone through
Wit_C8_SkippedContainer ==
  /\ pc = "Deciding" /\ ri > Len(rows)
  /\ \E k \in DOMAIN FetchedBoxes : _extract_title_from_card(FetchedBoxes[k]) = <<>>
  /\ Len(FetchedBoxes) = 2
  /\ Len(titles) = 1

\* C9: the crawl sleeps only before another request: stopped at the page
\* limit, it has slept once less than it has requested.
Cx_C9_DelayOnlyBeforeRequest ==
  (StoppedFor("max_pages") /\ Len(requests) >= 1) => sleeps = Len(requests) - 1

\* C10: the title is the text of the first of the four steps whose cleaned
\* text is not empty; a step with an element and an empty text is passed over.
StepTexts(box) ==
  << IF box.spans # <<>> THEN _clean_text(box.spans[1].text) ELSE <<>>,
     IF HeadlineAnchor(box) # 0
       THEN _clean_text(box.spans[FirstIdx({j \in DOMAIN box.spans :
                           box.spans[j].parent = HeadlineAnchor(box)})].text)
       ELSE <<>>,
     IF NewsTitAnchor(box) # 0
       THEN _clean_text(box.anchors[NewsTitAnchor(box)].text) ELSE <<>>,
     IF KeywordAnchor(box) # 0
       THEN _clean_text(box.anchors[KeywordAnchor(box)].text) ELSE <<>> >>

FirstNonEmpty(ts) ==
  LET k == FirstIdx({i \in DOMAIN ts : ts[i] # <<>>}) IN IF k = 0 THEN <<>> ELSE ts[k]

Cx_C10_FirstNonEmptyStepWins ==
  \A k \in DOMAIN FetchedBoxes :
     _extract_title_from_card(FetchedBoxes[k]) = FirstNonEmpty(StepTexts(FetchedBoxes[k]))

====
